---- MODULE Spec2Model ----
(***************************************************************************)
(* Selection / zoom state machine of the electoral-district map (app.js). *)
(*                                                                         *)
(* JavaScript values that the code compares with === / !== keep their     *)
(* type: Num(n) is the number n, Str(n) the string made of n's digits.    *)
(* Object property keys are strings, so a table lookup uses only the      *)
(* digits (Key).  Coordinates are small integers; a bounds object is the  *)
(* box [s, w, n, e].                                                       *)
(***************************************************************************)
EXTENDS Integers, Sequences, FiniteSets, TLC

\* Number of entries of PREFECTURE_NAMES kept in the model (47 in the code).
NumPrefectures == 3

Num(n) == [t |-> "num", v |-> n]
Str(n) == [t |-> "str", v |-> n]
Null == [t |-> "null", v |-> 0]

\* String(x) and the implicit conversion of a property key.
String(x) == [t |-> "str", v |-> x.v]
Key(x) == x.v
\* parseInt on a number or a numeric string.
parseInt(x) == x.v

PREFECTURE_NAMES == 1..NumPrefectures

OUTLOOK_COLORS(k) ==
    CASE k = "5" -> "#2563eb"
      [] k = "4" -> "#60a5fa"
      [] k = "3" -> "#9333ea"
      [] k = "2" -> "#f472b6"
      [] k = "1" -> "#dc2626"
      [] OTHER -> "undefined"

OUTLOOK_LABELS(k) ==
    CASE k = "5" -> "stable"
      [] k = "4" -> "favored"
      [] k = "3" -> "competitive"
      [] k = "2" -> "unfavored"
      [] k = "1" -> "difficult"
      [] OTHER -> "undefined"

\* Centre in tenths of a degree.
JAPAN_CENTER == <<370, 1385>>
JAPAN_ZOOM == 7
PrefectureMaxZoom == 10
DistrictMaxZoom == 12

IncumbentStatus == "incumbent"

NoBounds == [s |-> 0, w |-> 0, n |-> -1, e |-> -1]
Box(s, w, n, e) == [s |-> s, w |-> w, n |-> n, e |-> e]

Min(a, b) == IF a < b THEN a ELSE b
Max(a, b) == IF a > b THEN a ELSE b

\* extend that replaces the bounds by the last box.
extend_Overwrite(bounds, box) == box

\* L.latLngBounds().extend(box): the first box is taken as it is.
extend(bounds, box) ==
    IF bounds = NoBounds THEN box
    ELSE Box(Min(bounds.s, box.s), Min(bounds.w, box.w),
             Max(bounds.n, box.n), Max(bounds.e, box.e))

\* The feature collection (election_data.js): prefecture id a number,
\* district number a number or a numeric string, district code a string.
\* District 101 is made of two shapes.
ELECTION_DATA ==
    << [ken |-> Num(1), ku |-> Str(2), kucode |-> Str(102), box |-> Box(0, 2, 2, 4)],
       [ken |-> Num(1), ku |-> Num(1), kucode |-> Str(101), box |-> Box(0, 0, 2, 2)],
       [ken |-> Num(1), ku |-> Num(1), kucode |-> Str(101), box |-> Box(3, 0, 4, 1)],
       [ken |-> Num(2), ku |-> Num(1), kucode |-> Str(201), box |-> Box(5, 5, 7, 7)] >>

Layers == 1..Len(ELECTION_DATA)
NoLayer == 0

\* The candidate table (candidates.json) once loaded; district 201 has no
\* record and district 102 an empty candidate list.
CandidateTable ==
    [k \in {101, 102} |->
        IF k = 101
        THEN [name |-> "D101", outlook |-> "5",
              candidates |-> << [name |-> "a", party |-> "p", status |-> "incumbent"],
                                [name |-> "b", party |-> "q", status |-> "new"] >>]
        ELSE [name |-> "D102", outlook |-> "1", candidates |-> << >>]]

EmptyTable == [k \in {} |-> 0]


VARIABLES
    pc,                  \* position of the DOMContentLoaded handler
    electionDataDefined, \* typeof ELECTION_DATA !== 'undefined'
    errorReported,       \* console.error was called by loadElectionData
    CANDIDATES_DATA,
    prefectureBounds,
    districtBounds,
    geojsonLayer,        \* [defined, layers]
    listeners,           \* registered interaction listeners
    prefOptions,         \* option values of #prefecture-select
    currentPrefecture,
    selectedLayer,
    style,               \* style of every layer of geojsonLayer
    viewport,            \* last viewport request honoured by the map
    sidebar,             \* #sidebar / #overlay and the panel content
    prefValue,           \* value of #prefecture-select
    districtOptions,     \* option values of #district-select after the placeholder
    districtDisabled,    \* disabled attribute of #district-select
    hovered,             \* layer under the pointer
    effects,             \* calls and assignments made by the last handler, in order
    threw,               \* the last handler ended with an uncaught exception
    lastOp,              \* the last handler that ran
    prevOp,              \* the handler that ran before it
    prePrefecture,       \* currentPrefecture when the last handler started
    featureCollection          \* the feature collection handed to calculateBounds

loadVars == <<pc, electionDataDefined, errorReported, CANDIDATES_DATA,
              prefectureBounds, districtBounds, geojsonLayer, listeners, prefOptions>>
viewVars == <<currentPrefecture, selectedLayer, style, viewport, sidebar,
              prefValue, districtOptions, districtDisabled, effects, threw>>
vars == <<loadVars, viewVars, hovered, lastOp, prevOp, prePrefecture, featureCollection>>

----
\* Geometry indexer

RECURSIVE ExtendAll(_, _, _)
ExtendAll(features, idx, bounds) ==
    IF idx = {} THEN bounds
    ELSE LET i == CHOOSE j \in idx : \A k \in idx : j <= k
         IN ExtendAll(features, idx \ {i}, extend(bounds, features[i].box))

\* calculateBounds: group the features by ken and by kucode, then extend an
\* empty bounds object by every feature of the group.
GroupBounds(features, prop) ==
    [g \in { Key(features[i][prop]) : i \in 1..Len(features) } |->
        ExtendAll(features,
                  { i \in 1..Len(features) : Key(features[i][prop]) = g },
                  NoBounds)]

calculateBoundsPrefecture(geojsonData) == GroupBounds(geojsonData, "ken")
calculateBoundsDistrict(geojsonData) == GroupBounds(geojsonData, "kucode")

----
\* Styles

getFeatureStyle(feature) ==
    LET kucode == String(feature.kucode)
        outlook == IF Key(kucode) \in DOMAIN CANDIDATES_DATA
                   THEN CANDIDATES_DATA[Key(kucode)].outlook ELSE "competitive"
        color == IF OUTLOOK_COLORS(outlook) # "undefined"
                 THEN OUTLOOK_COLORS(outlook) ELSE OUTLOOK_COLORS("competitive")
    IN [fillColor |-> color, weight |-> 1, fillOpacity |-> 60]

HoverStyle(old) == [old EXCEPT !.weight = 2, !.fillOpacity = 85]
SelectedStyle(old) == [old EXCEPT !.weight = 3, !.fillOpacity = 85]

IsSelectedStyle(s) == s.weight = 3
IsDefaultStyle(l) == style[l] = getFeatureStyle(ELECTION_DATA[l])

Effect(op, layer, box, zoom) == [op |-> op, layer |-> layer, box |-> box, zoom |-> zoom]

\* geojsonLayer.resetStyle(layer); a TypeError when geojsonLayer is undefined.
resetStyle(st, l) ==
    IF ~geojsonLayer.defined THEN [st EXCEPT !.threw = TRUE]
    ELSE [st EXCEPT !.style[l] = getFeatureStyle(ELECTION_DATA[l]),
                    !.effects = Append(@, Effect("resetStyle", l, NoBounds, 0))]

setStyleSelected(st, l) ==
    [st EXCEPT !.style[l] = SelectedStyle(@),
               !.effects = Append(@, Effect("setStyle", l, NoBounds, 0))]

bringToFront(st, l) ==
    [st EXCEPT !.effects = Append(@, Effect("bringToFront", l, NoBounds, 0))]

fitBounds(st, bounds, maxZoom) ==
    [st EXCEPT !.viewport = [op |-> "fitBounds", center |-> <<0, 0>>,
                             bounds |-> bounds, zoom |-> maxZoom],
               !.effects = Append(@, Effect("fitBounds", NoLayer, bounds, maxZoom))]

setView(st, center, zoom) ==
    [st EXCEPT !.viewport = [op |-> "setView", center |-> center,
                             bounds |-> NoBounds, zoom |-> zoom],
               !.effects = Append(@, Effect("setView", NoLayer, NoBounds, zoom))]

----
\* Panel

getDistrictName(ken, ku, kucode) ==
    IF Key(String(kucode)) \in DOMAIN CANDIDATES_DATA
    THEN [from |-> "table", a |-> Key(kucode), b |-> 0]
    ELSE IF Key(ken) \in PREFECTURE_NAMES
         THEN [from |-> "names", a |-> Key(ken), b |-> Key(ku)]
         ELSE [from |-> "fallback", a |-> Key(ken), b |-> Key(ku)]

NoName == [from |-> "none", a |-> 0, b |-> 0]

Placeholder == [name |-> "no information", party |-> "", status |-> "", tag |-> "placeholder"]

CandidateCard(candidate) ==
    [name |-> candidate.name, party |-> candidate.party, status |-> candidate.status,
     tag |-> IF candidate.status = IncumbentStatus THEN "incumbent" ELSE "new"]

\* The candidate list written by showDistrictInfo.
candidatesList(kucode) ==
    IF Key(String(kucode)) \in DOMAIN CANDIDATES_DATA
    THEN LET c == CANDIDATES_DATA[Key(String(kucode))].candidates
         IN [i \in 1..Len(c) |-> CandidateCard(c[i])]
    ELSE << Placeholder >>

showDistrictInfo(st, ken, ku, kucode) ==
    LET known == Key(String(kucode)) \in DOMAIN CANDIDATES_DATA
        outlook == IF known THEN CANDIDATES_DATA[Key(String(kucode))].outlook
                   ELSE "competitive"
    IN [st EXCEPT !.sidebar = [open |-> TRUE,
                               name |-> getDistrictName(ken, ku, kucode),
                               label |-> OUTLOOK_LABELS(outlook),
                               class |-> outlook,
                               candidates |-> candidatesList(kucode)],
                  !.effects = Append(@, Effect("openSidebar", NoLayer, NoBounds, 0))]

\* closeSidebar that forgets the selection.
closeSidebar_KeepSelection(st) ==
    [st EXCEPT !.sidebar.open = FALSE,
               !.effects = Append(@, Effect("closeSidebar", NoLayer, NoBounds, 0))]

closeSidebar(st) ==
    LET s1 == [st EXCEPT !.sidebar.open = FALSE,
                         !.effects = Append(@, Effect("closeSidebar", NoLayer, NoBounds, 0))]
    IN IF s1.selectedLayer # NoLayer
       THEN LET s2 == resetStyle(s1, s1.selectedLayer)
            IN IF s2.threw THEN s2
               ELSE [s2 EXCEPT !.selectedLayer = NoLayer,
                               !.effects = Append(@, Effect("selectedLayer=", NoLayer, NoBounds, 0))]
       ELSE s1

----
\* Selection state machine

EmptyString == [t |-> "str", v |-> -1]

zoomToPrefecture(st, ken) ==
    IF Key(ken) \in DOMAIN prefectureBounds
    THEN LET s1 == fitBounds(st, prefectureBounds[Key(ken)], PrefectureMaxZoom)
         IN [s1 EXCEPT !.currentPrefecture = ken,
                       !.effects = Append(@, Effect("currentPrefecture=", NoLayer, NoBounds, Key(ken)))]
    ELSE st

\* resetView that leaves currentPrefecture alone.
resetView_KeepPrefecture(st) ==
    LET s1 == setView(st, JAPAN_CENTER, JAPAN_ZOOM)
        s3 == IF s1.selectedLayer # NoLayer
              THEN LET r == resetStyle(s1, s1.selectedLayer)
                   IN IF r.threw THEN r ELSE [r EXCEPT !.selectedLayer = NoLayer]
              ELSE s1
        s4 == IF s3.threw THEN s3 ELSE closeSidebar(s3)
    IN IF s4.threw THEN s4
       ELSE [s4 EXCEPT !.prefValue = EmptyString,
                       !.districtOptions = << >>,
                       !.districtDisabled = TRUE]

resetView(st) ==
    LET s1 == setView(st, JAPAN_CENTER, JAPAN_ZOOM)
        s2 == [s1 EXCEPT !.currentPrefecture = Null]
        s3 == IF s2.selectedLayer # NoLayer
              THEN LET r == resetStyle(s2, s2.selectedLayer)
                   IN IF r.threw THEN r ELSE [r EXCEPT !.selectedLayer = NoLayer]
              ELSE s2
        s4 == IF s3.threw THEN s3 ELSE closeSidebar(s3)
    IN IF s4.threw THEN s4
       ELSE [s4 EXCEPT !.prefValue = EmptyString,
                       !.districtOptions = << >>,
                       !.districtDisabled = TRUE]

\* selectedLayer !== feature compares a layer with a feature object: two
\* different objects, so the comparison is true whenever a layer is selected.
LayerIsFeature(layer, l) == FALSE

\* handleDistrictClick that resets the previous selection after styling the new one.
handleDistrictClick_ResetLast(st, l) ==
    LET feature == ELECTION_DATA[l]
        s1 == IF st.currentPrefecture # feature.ken
              THEN zoomToPrefecture(st, feature.ken) ELSE st
        s2 == setStyleSelected(s1, l)
        s3 == IF s2.selectedLayer # NoLayer /\ ~LayerIsFeature(s2.selectedLayer, l)
              THEN resetStyle(s2, s2.selectedLayer) ELSE s2
        s4 == [s3 EXCEPT !.selectedLayer = l,
                         !.effects = Append(@, Effect("selectedLayer=", l, NoBounds, 0))]
        s5 == bringToFront(s4, l)
    IN showDistrictInfo(s5, feature.ken, feature.ku, feature.kucode)

\* handleDistrictClick that opens the panel before anything else.
handleDistrictClick_PanelFirst(st, l) ==
    LET feature == ELECTION_DATA[l]
        s0 == showDistrictInfo(st, feature.ken, feature.ku, feature.kucode)
        s1 == IF s0.currentPrefecture # feature.ken
              THEN zoomToPrefecture(s0, feature.ken) ELSE s0
        s2 == IF s1.selectedLayer # NoLayer /\ ~LayerIsFeature(s1.selectedLayer, l)
              THEN resetStyle(s1, s1.selectedLayer) ELSE s1
        s3 == setStyleSelected(s2, l)
        s4 == [s3 EXCEPT !.selectedLayer = l,
                         !.effects = Append(@, Effect("selectedLayer=", l, NoBounds, 0))]
    IN bringToFront(s4, l)

handleDistrictClick(st, l) ==
    LET feature == ELECTION_DATA[l]
        s1 == IF st.currentPrefecture # feature.ken
              THEN zoomToPrefecture(st, feature.ken) ELSE st
        s2 == IF s1.selectedLayer # NoLayer /\ ~LayerIsFeature(s1.selectedLayer, l)
              THEN resetStyle(s1, s1.selectedLayer) ELSE s1
        s3 == setStyleSelected(s2, l)
        s4 == [s3 EXCEPT !.selectedLayer = l,
                         !.effects = Append(@, Effect("selectedLayer=", l, NoBounds, 0))]
        s5 == bringToFront(s4, l)
    IN showDistrictInfo(s5, feature.ken, feature.ku, feature.kucode)

\* The features of prefecture kenCode, first occurrence of every kucode.
districtMap(kenCode) ==
    { i \in 1..Len(ELECTION_DATA) :
        /\ String(ELECTION_DATA[i].ken) = String(kenCode)
        /\ \A j \in 1..(i - 1) :
              String(ELECTION_DATA[j].ken) = String(kenCode)
                 => ELECTION_DATA[j].kucode # ELECTION_DATA[i].kucode }

\* The districts in insertion order, without the sort.
RECURSIVE sortedDistricts_Unsorted(_)
sortedDistricts_Unsorted(idx) ==
    IF idx = {} THEN << >>
    ELSE LET i == CHOOSE j \in idx : \A k \in idx : j <= k
         IN << String(ELECTION_DATA[i].kucode) >> \o sortedDistricts_Unsorted(idx \ {i})

\* Array.prototype.sort((a, b) => a.ku - b.ku): stable, by parseInt(ku).
RECURSIVE sortedDistricts(_)
sortedDistricts(idx) ==
    IF idx = {} THEN << >>
    ELSE LET i == CHOOSE j \in idx : \A k \in idx :
                      \/ parseInt(ELECTION_DATA[j].ku) < parseInt(ELECTION_DATA[k].ku)
                      \/ /\ parseInt(ELECTION_DATA[j].ku) = parseInt(ELECTION_DATA[k].ku)
                         /\ j <= k
         IN << String(ELECTION_DATA[i].kucode) >> \o sortedDistricts(idx \ {i})

\* A ReferenceError when ELECTION_DATA is not defined, after the dropdown
\* was emptied and enabled.
updateDistrictSelect(st, kenCode) ==
    LET s1 == [st EXCEPT !.districtOptions = << >>, !.districtDisabled = FALSE]
    IN IF ~electionDataDefined THEN [s1 EXCEPT !.threw = TRUE]
       ELSE [s1 EXCEPT !.districtOptions = sortedDistricts(districtMap(kenCode))]

\* eachLayer keeps the last layer whose kucode === kucode.
targetLayerOf(kucode) ==
    LET m == { l \in geojsonLayer.layers : ELECTION_DATA[l].kucode = kucode }
    IN IF m = {} THEN NoLayer ELSE CHOOSE l \in m : \A k \in m : k <= l

\* selectDistrictByCode that does not reset the previously selected layer.
selectDistrictByCode_NoReset(st, kucode) ==
    IF ~geojsonLayer.defined THEN [st EXCEPT !.threw = TRUE]
    ELSE LET targetLayer == targetLayerOf(kucode)
         IN IF targetLayer = NoLayer THEN st
            ELSE LET targetFeature == ELECTION_DATA[targetLayer]
                     s2 == [st EXCEPT !.selectedLayer = targetLayer,
                                      !.effects = Append(@, Effect("selectedLayer=", targetLayer, NoBounds, 0))]
                     s3 == setStyleSelected(s2, targetLayer)
                     s4 == bringToFront(s3, targetLayer)
                     s5 == fitBounds(s4, targetFeature.box, DistrictMaxZoom)
                 IN showDistrictInfo(s5, targetFeature.ken, targetFeature.ku,
                                     targetFeature.kucode)

\* A TypeError when geojsonLayer is undefined.
selectDistrictByCode(st, kucode) ==
    IF ~geojsonLayer.defined THEN [st EXCEPT !.threw = TRUE]
    ELSE LET targetLayer == targetLayerOf(kucode)
         IN IF targetLayer = NoLayer THEN st
            ELSE LET targetFeature == ELECTION_DATA[targetLayer]
                     s1 == IF st.selectedLayer # NoLayer /\ st.selectedLayer # targetLayer
                           THEN resetStyle(st, st.selectedLayer) ELSE st
                     s2 == [s1 EXCEPT !.selectedLayer = targetLayer,
                                      !.effects = Append(@, Effect("selectedLayer=", targetLayer, NoBounds, 0))]
                     s3 == setStyleSelected(s2, targetLayer)
                     s4 == bringToFront(s3, targetLayer)
                     s5 == fitBounds(s4, targetFeature.box, DistrictMaxZoom)
                 IN showDistrictInfo(s5, targetFeature.ken, targetFeature.ku,
                                     targetFeature.kucode)

\* change listener of #prefecture-select
prefSelectChange(st, kenCode) ==
    IF kenCode = EmptyString THEN resetView(st)
    ELSE LET s1 == zoomToPrefecture(st, kenCode)
         IN updateDistrictSelect(s1, kenCode)

\* change listener of #district-select
districtSelectChange(st, kucode) ==
    IF kucode = EmptyString THEN st ELSE selectDistrictByCode(st, kucode)

handleMouseOver(st, l) ==
    LET s1 == [st EXCEPT !.style[l] = HoverStyle(@),
                         !.effects = Append(@, Effect("setStyle", l, NoBounds, 0))]
    IN bringToFront(s1, l)

\* handleMouseOut without the test for the selected layer.
handleMouseOut_AlwaysReset(st, l) == resetStyle(st, l)

handleMouseOut(st, l) ==
    IF l = st.selectedLayer THEN st ELSE resetStyle(st, l)

----
\* The state machine

St ==
    [currentPrefecture |-> currentPrefecture, selectedLayer |-> selectedLayer,
     style |-> style, viewport |-> viewport, sidebar |-> sidebar,
     prefValue |-> prefValue, districtOptions |-> districtOptions,
     districtDisabled |-> districtDisabled, effects |-> << >>, threw |-> FALSE]

Apply(r) ==
    /\ currentPrefecture' = r.currentPrefecture
    /\ selectedLayer' = r.selectedLayer
    /\ style' = r.style
    /\ viewport' = r.viewport
    /\ sidebar' = r.sidebar
    /\ prefValue' = r.prefValue
    /\ districtOptions' = r.districtOptions
    /\ districtDisabled' = r.districtDisabled
    /\ effects' = r.effects
    /\ threw' = r.threw

Op(kind, layer, code) == [kind |-> kind, layer |-> layer, code |-> code]

Record(op) ==
    /\ lastOp' = op
    /\ prevOp' = lastOp
    /\ prePrefecture' = currentPrefecture
    /\ UNCHANGED featureCollection

Range(seq) == { seq[i] : i \in 1..Len(seq) }

SelectorListeners == {"prefecture-select", "district-select"}
DismissListeners == {"sidebar-close", "overlay", "keydown", "touchend"}

\* initMap has run; the fetch of candidates.json is in flight.
Init ==
    /\ pc = "fetch"
    /\ electionDataDefined \in BOOLEAN
    /\ errorReported = FALSE
    /\ CANDIDATES_DATA = EmptyTable
    /\ prefectureBounds = EmptyTable
    /\ districtBounds = EmptyTable
    /\ geojsonLayer = [defined |-> FALSE, layers |-> {}]
    /\ listeners = {}
    /\ prefOptions = << >>
    /\ currentPrefecture = Null
    /\ selectedLayer = NoLayer
    /\ style = EmptyTable
    /\ viewport = [op |-> "setView", center |-> JAPAN_CENTER,
                   bounds |-> NoBounds, zoom |-> JAPAN_ZOOM]
    /\ sidebar = [open |-> FALSE, name |-> NoName, label |-> "", class |-> "",
                  candidates |-> << >>]
    /\ prefValue = EmptyString
    /\ districtOptions = << >>
    /\ districtDisabled = TRUE
    /\ hovered = NoLayer
    /\ effects = << >>
    /\ threw = FALSE
    /\ lastOp = Op("none", NoLayer, 0)
    /\ prevOp = Op("none", NoLayer, 0)
    /\ prePrefecture = Null
    /\ featureCollection = ELECTION_DATA

\* initSelectors and setupEventListeners, which run after loadElectionData
\* has returned, whether or not it caught an error.
WireUp(layerListeners) ==
    /\ prefOptions' = [i \in 1..NumPrefectures |-> Str(i)]
    /\ listeners' = layerListeners \cup SelectorListeners
                       \cup {"reset-btn"} \cup DismissListeners
    /\ pc' = "ready"

\* The catch block of loadElectionData.
LoadFailed ==
    /\ errorReported' = TRUE
    /\ UNCHANGED <<prefectureBounds, districtBounds, geojsonLayer, style>>
    /\ WireUp({})

\* The fetch settles: rejected, answered with !ok, or answered with ok.
FetchSettled ==
    /\ pc = "fetch"
    /\ \E outcome \in {"ok", "notOk", "rejected"} :
          IF outcome = "ok"
          THEN /\ pc' = "json"
               /\ UNCHANGED <<errorReported, prefectureBounds, districtBounds,
                              geojsonLayer, style, listeners, prefOptions>>
          ELSE LoadFailed
    /\ UNCHANGED <<electionDataDefined, CANDIDATES_DATA, currentPrefecture, selectedLayer,
                   viewport, sidebar, prefValue, districtOptions, districtDisabled,
                   hovered, effects, threw>>
    /\ Record(Op("fetch", NoLayer, 0))

\* response.json() settles; on success the rest of loadElectionData runs.
JsonSettled ==
    /\ pc = "json"
    /\ \E outcome \in {"ok", "parseError"} :
          IF outcome = "parseError"
          THEN /\ UNCHANGED CANDIDATES_DATA
               /\ LoadFailed
          ELSE /\ CANDIDATES_DATA' = CandidateTable
               /\ IF ~electionDataDefined
                  THEN LoadFailed
                  ELSE /\ prefectureBounds' = calculateBoundsPrefecture(ELECTION_DATA)
                       /\ districtBounds' = calculateBoundsDistrict(ELECTION_DATA)
                       /\ geojsonLayer' = [defined |-> TRUE, layers |-> Layers]
                       /\ style' = [l \in Layers |-> getFeatureStyle(ELECTION_DATA[l])']
                       /\ UNCHANGED errorReported
                       /\ WireUp({"layer"})
    /\ UNCHANGED <<electionDataDefined, currentPrefecture, selectedLayer,
                   viewport, sidebar, prefValue, districtOptions, districtDisabled,
                   hovered, effects, threw>>
    /\ Record(Op("json", NoLayer, 0))

ClickDistrict ==
    /\ "layer" \in listeners
    /\ \E l \in geojsonLayer.layers :
          /\ Apply(handleDistrictClick(St, l))
          /\ Record(Op("click", l, Key(ELECTION_DATA[l].kucode)))
    /\ UNCHANGED <<loadVars, hovered>>

ChoosePrefecture ==
    /\ "prefecture-select" \in listeners
    /\ \E kenCode \in Range(prefOptions) \cup {EmptyString} :
          /\ Apply(prefSelectChange([St EXCEPT !.prefValue = kenCode], kenCode))
          /\ Record(Op("prefChange", NoLayer, Key(kenCode)))
    /\ UNCHANGED <<loadVars, hovered>>

ChooseDistrict ==
    /\ "district-select" \in listeners
    /\ ~districtDisabled
    /\ \E kucode \in Range(districtOptions) \cup {EmptyString} :
          /\ Apply(districtSelectChange(St, kucode))
          /\ Record(Op("districtChange", targetLayerOf(kucode), Key(kucode)))
    /\ UNCHANGED <<loadVars, hovered>>

ClickReset ==
    /\ "reset-btn" \in listeners
    /\ Apply(resetView(St))
    /\ Record(Op("reset", NoLayer, 0))
    /\ UNCHANGED <<loadVars, hovered>>

\* Close button, overlay click, Escape key, or a long enough swipe.
Dismiss ==
    /\ \E via \in DismissListeners :
          /\ via \in listeners
          /\ Apply(closeSidebar(St))
    /\ Record(Op("close", NoLayer, 0))
    /\ UNCHANGED <<loadVars, hovered>>

MouseOver ==
    /\ "layer" \in listeners
    /\ hovered = NoLayer
    /\ \E l \in geojsonLayer.layers :
          /\ Apply(handleMouseOver(St, l))
          /\ hovered' = l
          /\ Record(Op("mouseover", l, 0))
    /\ UNCHANGED loadVars

MouseOut ==
    /\ "layer" \in listeners
    /\ hovered # NoLayer
    /\ Apply(handleMouseOut(St, hovered))
    /\ hovered' = NoLayer
    /\ Record(Op("mouseout", hovered, 0))
    /\ UNCHANGED loadVars

Next ==
    \/ FetchSettled
    \/ JsonSettled
    \/ ClickDistrict
    \/ ChoosePrefecture
    \/ ChooseDistrict
    \/ ClickReset
    \/ Dismiss
    \/ MouseOver
    \/ MouseOut

Spec == Init /\ [][Next]_vars

TypeOK ==
    /\ pc \in {"fetch", "json", "ready", "calculateBounds", "indexed"}
    /\ selectedLayer \in Layers \cup {NoLayer}
    /\ hovered \in Layers \cup {NoLayer}

----
\* The geometry indexer on its own: calculateBounds applied to any feature
\* collection of at most MaxFeatures features over the coordinates Coords.

MaxFeatures == 2
Coords == 0..1

Boxes == { b \in [s : Coords, w : Coords, n : Coords, e : Coords] : b.s <= b.n /\ b.w <= b.e }

Features ==
    [ken : {Num(1), Num(2)}, ku : {Num(1)}, kucode : {Str(101), Str(102)}, box : Boxes]

Collections == UNION { [1..n -> Features] : n \in 0..MaxFeatures }

InitBounds ==
    /\ pc = "calculateBounds"
    /\ featureCollection \in Collections
    /\ electionDataDefined = TRUE
    /\ errorReported = FALSE
    /\ CANDIDATES_DATA = CandidateTable
    /\ prefectureBounds = EmptyTable
    /\ districtBounds = EmptyTable
    /\ geojsonLayer = [defined |-> FALSE, layers |-> {}]
    /\ listeners = {}
    /\ prefOptions = << >>
    /\ currentPrefecture = Null
    /\ selectedLayer = NoLayer
    /\ style = EmptyTable
    /\ viewport = [op |-> "setView", center |-> JAPAN_CENTER,
                   bounds |-> NoBounds, zoom |-> JAPAN_ZOOM]
    /\ sidebar = [open |-> FALSE, name |-> NoName, label |-> "", class |-> "",
                  candidates |-> << >>]
    /\ prefValue = EmptyString
    /\ districtOptions = << >>
    /\ districtDisabled = TRUE
    /\ hovered = NoLayer
    /\ effects = << >>
    /\ threw = FALSE
    /\ lastOp = Op("none", NoLayer, 0)
    /\ prevOp = Op("none", NoLayer, 0)
    /\ prePrefecture = Null

CalculateBounds ==
    /\ pc = "calculateBounds"
    /\ prefectureBounds' = calculateBoundsPrefecture(featureCollection)
    /\ districtBounds' = calculateBoundsDistrict(featureCollection)
    /\ pc' = "indexed"
    /\ UNCHANGED <<electionDataDefined, errorReported, CANDIDATES_DATA, geojsonLayer,
                   listeners, prefOptions, viewVars, hovered, lastOp, prevOp,
                   prePrefecture, featureCollection>>

NextBounds == CalculateBounds

SpecBounds == InitBounds /\ [][NextBounds]_vars

----
\* Properties

\* Layers that carry the selected highlight style.
Highlighted(st) == { l \in DOMAIN st.style : IsSelectedStyle(st.style[l]) }

\* The handler was a district selection (by click or by dropdown) that found its layer.
IsSelect(op) == op.kind \in {"click", "districtChange"} /\ op.layer # NoLayer

\* Same prefecture, whatever the JavaScript type of the two ids.
SamePrefecture(a, b) == a # Null /\ b # Null /\ Key(a) = Key(b)

JapanView == [op |-> "setView", center |-> JAPAN_CENTER, bounds |-> NoBounds, zoom |-> JAPAN_ZOOM]

\* C1: after selecting district A and then district B (A # B), by click or
\* by dropdown, exactly B's layer carries the selected highlight and A's
\* layer is back in its default style; at most one layer is ever highlighted.
C1_OneHighlight ==
    /\ Cardinality(Highlighted(St)) <= 1
    /\ (IsSelect(lastOp) /\ IsSelect(prevOp) /\ lastOp.code # prevOp.code)
          => /\ Highlighted(St) = {lastOp.layer}
             /\ IsDefaultStyle(prevOp.layer)

C1_Witness ==
    /\ lastOp.kind = "districtChange" /\ IsSelect(lastOp)
    /\ prevOp.kind = "click"
    /\ lastOp.code # prevOp.code
    /\ Highlighted(St) = {lastOp.layer}

IsReset(op) == op.kind = "reset" \/ (op.kind = "prefChange" /\ op.code = Key(EmptyString))

\* C2: reset (button or empty prefecture option) yields Idle: nothing zoomed,
\* nothing selected or highlighted, panel closed, whole-country viewport,
\* prefecture dropdown empty, district dropdown cleared and disabled.
C2_ResetIdle ==
    IsReset(lastOp)
       => /\ ~threw
          /\ currentPrefecture = Null
          /\ selectedLayer = NoLayer
          /\ Highlighted(St) = {}
          /\ ~sidebar.open
          /\ viewport = JapanView
          /\ prefValue = EmptyString
          /\ districtOptions = << >>
          /\ districtDisabled

C2_Witness ==
    /\ lastOp.kind = "reset"
    /\ IsSelect(prevOp)
    /\ prePrefecture # Null
    /\ selectedLayer = NoLayer

\* C3: after every handler the panel is open exactly when a district is selected.
C3_PanelIffSelected == sidebar.open <=> (selectedLayer # NoLayer)

C3_Witness ==
    /\ lastOp.kind = "close"
    /\ IsSelect(prevOp)
    /\ ~sidebar.open
    /\ selectedLayer = NoLayer

\* C4: a district selection (by click or by dropdown) first zooms the
\* owning prefecture when another one, or none, is zoomed, so that the
\* zoomed prefecture is the prefecture of the feature that owns the selected
\* district.  Stated for the states right after a selection.
C4_ZoomedOwnsSelected ==
    IsSelect(lastOp)
       => /\ selectedLayer # NoLayer
          /\ SamePrefecture(currentPrefecture, ELECTION_DATA[selectedLayer].ken)

\* C5: choosing a prefecture p that has bounds ends in PrefectureZoomed(p):
\* p zoomed, viewport fit to its bounds, no district selected or highlighted.
C5_PrefectureZoomed ==
    (lastOp.kind = "prefChange" /\ lastOp.code \in DOMAIN prefectureBounds)
       => /\ SamePrefecture(currentPrefecture, Str(lastOp.code))
          /\ viewport.op = "fitBounds"
          /\ viewport.bounds = prefectureBounds[lastOp.code]
          /\ selectedLayer = NoLayer
          /\ Highlighted(St) = {}

\* What C6 compares: selected district, highlighted layers, zoomed prefecture
\* (by id) and panel content.
SelectedCode(st) ==
    IF st.selectedLayer = NoLayer THEN 0 ELSE Key(ELECTION_DATA[st.selectedLayer].kucode)

Observable(st) ==
    <<SelectedCode(st), Highlighted(st), Key(st.currentPrefecture), st.sidebar>>

\* C6: from every state, clicking a shape of district d and choosing d in
\* the district dropdown end in the same state apart from the viewport.
C6_ClickEqualsDropdown ==
    ("layer" \in listeners /\ ~districtDisabled)
       => \A l \in geojsonLayer.layers :
             String(ELECTION_DATA[l].kucode) \in Range(districtOptions)
                => Observable(handleDistrictClick(St, l))
                      = Observable(districtSelectChange(St, String(ELECTION_DATA[l].kucode)))

IsPrefectureFit(e) == e.op = "fitBounds" /\ e.zoom = PrefectureMaxZoom

\* C7: selecting a district whose prefecture is already zoomed issues no
\* fit-to-PrefectureBounds request.
C7_NoRefit ==
    (IsSelect(lastOp) /\ SamePrefecture(prePrefecture, ELECTION_DATA[lastOp.layer].ken))
       => \A i \in 1..Len(effects) : ~IsPrefectureFit(effects[i])

\* What C8 compares: everything the handlers change except the call log.
EndState(st) == [st EXCEPT !.effects = << >>]

IndexOf(seq, op) ==
    IF \E i \in 1..Len(seq) : seq[i].op = op
    THEN CHOOSE i \in 1..Len(seq) : seq[i].op = op /\ \A j \in 1..(i - 1) : seq[j].op # op
    ELSE 0

\* C9: a click on a shape of district d of prefecture q while nothing is
\* zoomed first fits the viewport to PrefectureBounds[q] and sets the zoomed
\* prefecture to q, then selects and highlights d, and last opens the
\* panel, which shows d's candidates.
C9_ClickFromIdleOrder ==
    (lastOp.kind = "click" /\ prePrefecture = Null)
       => LET f == ELECTION_DATA[lastOp.layer]
          IN /\ effects[1] = Effect("fitBounds", NoLayer, prefectureBounds[Key(f.ken)],
                                    PrefectureMaxZoom)
             /\ effects[2].op = "currentPrefecture=" /\ effects[2].zoom = Key(f.ken)
             /\ 2 < IndexOf(effects, "setStyle")
             /\ 2 < IndexOf(effects, "selectedLayer=")
             /\ IndexOf(effects, "setStyle") < IndexOf(effects, "openSidebar")
             /\ IndexOf(effects, "selectedLayer=") < IndexOf(effects, "openSidebar")
             /\ IndexOf(effects, "openSidebar") = Len(effects)
             /\ currentPrefecture = f.ken
             /\ selectedLayer = lastOp.layer
             /\ Highlighted(St) = {lastOp.layer}
             /\ sidebar.open
             /\ sidebar.name = getDistrictName(f.ken, f.ku, f.kucode)
             /\ sidebar.candidates = candidatesList(f.kucode)

C9_Witness ==
    /\ lastOp.kind = "click"
    /\ prePrefecture = Null
    /\ Key(ELECTION_DATA[lastOp.layer].kucode) = 101
    /\ sidebar.open
    /\ Len(sidebar.candidates) = 2

\* C10: when loading either data source fails, initialization aborts: no
\* layer is added, no dropdown is populated, no listener is registered and
\* no later event changes selection state, dropdowns, panel or viewport.
C10_FailedLoadUnusable ==
    errorReported
       => /\ ~geojsonLayer.defined
          /\ prefOptions = << >>
          /\ listeners = {}
          /\ currentPrefecture = Null
          /\ selectedLayer = NoLayer
          /\ prefValue = EmptyString
          /\ districtOptions = << >>
          /\ districtDisabled
          /\ ~sidebar.open
          /\ viewport = JapanView

\* C11: every registered interaction handler runs to completion without
\* raising an error, also after a failed data load.
C11_NoHandlerThrows == ~threw

\* C12: whenever an interaction listener is registered, the candidate table
\* is loaded and PrefectureBounds and DistrictBounds are fully built.
C12_ListenersAfterLoad ==
    listeners # {}
       => /\ CANDIDATES_DATA = CandidateTable
          /\ prefectureBounds = calculateBoundsPrefecture(ELECTION_DATA)
          /\ districtBounds = calculateBoundsDistrict(ELECTION_DATA)

\* What C13 requires an ignored choice to leave alone.
SelectionView(st) ==
    <<st.currentPrefecture, st.selectedLayer, st.style, st.sidebar, st.viewport,
      st.districtOptions>>

\* C13: a dropdown choice of a prefecture absent from PrefectureBounds or of
\* a district absent from DistrictBounds is silently ignored: zoomed
\* prefecture, selection, highlight, panel, viewport and district-dropdown
\* contents are unchanged and no error is raised.  Stated for the choices
\* that can be made after a successful load.
C13_UnknownSelectionIgnored ==
    (~errorReported /\ "prefecture-select" \in listeners)
       => /\ \A kenCode \in Range(prefOptions) :
                Key(kenCode) \notin DOMAIN prefectureBounds
                   => LET r == prefSelectChange([St EXCEPT !.prefValue = kenCode], kenCode)
                      IN ~r.threw /\ SelectionView(r) = SelectionView(St)
          /\ \A kucode \in Range(districtOptions) :
                Key(kucode) \notin DOMAIN districtBounds
                   => LET r == districtSelectChange(St, kucode)
                      IN ~r.threw /\ SelectionView(r) = SelectionView(St)

\* The colour and label the fixed table gives for a district: those of its
\* record's level, or of level 3 when it has no record.
ResolvedLevel(kucode) ==
    IF Key(kucode) \in DOMAIN CandidateTable
    THEN CandidateTable[Key(kucode)].outlook ELSE "3"

\* C14: the fill colour of every layer and the outlook label of the panel
\* are the table entries of the district's level, level 3 for a district
\* without a record; they are never undefined.
C14_ResolveDefaultsToLevel3 ==
    geojsonLayer.defined
       => /\ \A l \in geojsonLayer.layers :
                /\ style[l].fillColor = OUTLOOK_COLORS(ResolvedLevel(ELECTION_DATA[l].kucode))
                /\ style[l].fillColor # "undefined"
          /\ (sidebar.open /\ selectedLayer # NoLayer)
                => /\ sidebar.label
                         = OUTLOOK_LABELS(ResolvedLevel(ELECTION_DATA[selectedLayer].kucode))
                   /\ sidebar.label # "undefined"

\* The panel content C15 describes for a district.
ExpectedCards(kucode) ==
    IF Key(kucode) \in DOMAIN CandidateTable
          /\ CandidateTable[Key(kucode)].candidates # << >>
    THEN LET c == CandidateTable[Key(kucode)].candidates
         IN [i \in 1..Len(c) |->
                [name |-> c[i].name, party |-> c[i].party, status |-> c[i].status,
                 tag |-> IF c[i].status = IncumbentStatus THEN "incumbent" ELSE "new"]]
    ELSE << Placeholder >>

\* C15: the panel shows one placeholder entry for a district without record
\* or with an empty candidate list, otherwise one entry per candidate in
\* order, tagged incumbent exactly for the incumbent status; never nothing.
C15_PanelContent ==
    (sidebar.open /\ selectedLayer # NoLayer)
       => /\ sidebar.candidates = ExpectedCards(ELECTION_DATA[selectedLayer].kucode)
          /\ sidebar.candidates # << >>

\* The features the map knows of prefecture p.
FeaturesOfPrefecture(p) ==
    IF electionDataDefined
    THEN { i \in 1..Len(ELECTION_DATA) : Key(ELECTION_DATA[i].ken) = p }
    ELSE {}

\* District local number of the first feature that carries the code.
KuOf(code) ==
    LET m == { i \in 1..Len(ELECTION_DATA) : Key(ELECTION_DATA[i].kucode) = Key(code) }
    IN parseInt(ELECTION_DATA[CHOOSE i \in m : \A k \in m : i <= k].ku)

\* C16: after prefecture p is chosen from the dropdown, the district
\* dropdown is enabled and lists exactly the distinct district codes of the
\* features of p, each once, in ascending order of district local number.
C16_DistrictOptions ==
    (lastOp.kind = "prefChange" /\ lastOp.code # Key(EmptyString))
       => /\ ~districtDisabled
          /\ Range(districtOptions)
                = { String(ELECTION_DATA[i].kucode) : i \in FeaturesOfPrefecture(lastOp.code) }
          /\ \A i, j \in 1..Len(districtOptions) :
                i < j => /\ districtOptions[i] # districtOptions[j]
                         /\ KuOf(districtOptions[i]) <= KuOf(districtOptions[j])

C16_Witness ==
    /\ lastOp.kind = "prefChange"
    /\ lastOp.code = 1
    /\ districtOptions = << Str(101), Str(102) >>
    /\ ~districtDisabled

IsDistrictFit(e) == e.op = "fitBounds" /\ e.zoom = DistrictMaxZoom

\* C17: a district-level fit is requested only by a choice in the district
\* dropdown, and its target is DistrictBounds[code], the union of the
\* extents of every feature of the district.
C17_DistrictFitTarget ==
    \A i \in 1..Len(effects) :
        IsDistrictFit(effects[i])
           => /\ lastOp.kind = "districtChange"
              /\ lastOp.code \in DOMAIN districtBounds
              /\ effects[i].box = districtBounds[lastOp.code]

\* C19: when the prefecture dropdown shows a prefecture p, the zoomed
\* prefecture is p and the district dropdown lists the districts of the
\* zoomed prefecture.  Stated for the prefectures that have bounds.
C19_DropdownsFollowMap ==
    (prefValue # EmptyString /\ Key(prefValue) \in DOMAIN prefectureBounds)
       => /\ SamePrefecture(currentPrefecture, prefValue)
          /\ Range(districtOptions)
                = { String(ELECTION_DATA[i].kucode) :
                       i \in FeaturesOfPrefecture(Key(currentPrefecture)) }

\* C20: every layer that is neither selected nor under the pointer is in
\* its default style, and a mouseout on the selected layer does not return
\* it to the default style.
C20_HoverStyles ==
    /\ \A l \in DOMAIN style :
          (l # selectedLayer /\ l # hovered) => IsDefaultStyle(l)
    /\ (lastOp.kind = "mouseout" /\ lastOp.layer = selectedLayer)
          => ~IsDefaultStyle(selectedLayer)

C20_Witness ==
    /\ lastOp.kind = "mouseout"
    /\ lastOp.layer = selectedLayer
    /\ prevOp.kind = "click"
    /\ IsSelectedStyle(style[selectedLayer])
    /\ \E l \in DOMAIN style : l # selectedLayer

\* The smallest box that contains the extents of the features idx of the
\* collection, stated by its four sides.
IsSmallestBox(b, idx) ==
    /\ \A i \in idx : /\ b.s <= featureCollection[i].box.s /\ b.w <= featureCollection[i].box.w
                      /\ b.n >= featureCollection[i].box.n /\ b.e >= featureCollection[i].box.e
    /\ \E i \in idx : b.s = featureCollection[i].box.s
    /\ \E i \in idx : b.w = featureCollection[i].box.w
    /\ \E i \in idx : b.n = featureCollection[i].box.n
    /\ \E i \in idx : b.e = featureCollection[i].box.e

\* C18: after indexing, PrefectureBounds has exactly the prefecture ids that
\* occur and DistrictBounds exactly the district codes that occur, each
\* entry the smallest box containing every feature of its group; an empty
\* collection gives two empty tables and a single-point feature alone in
\* its group gives a box collapsed to that point.
C18_BoundsTables ==
    pc = "indexed"
       => LET idx == 1..Len(featureCollection)
          IN /\ DOMAIN prefectureBounds = { Key(featureCollection[i].ken) : i \in idx }
             /\ DOMAIN districtBounds = { Key(featureCollection[i].kucode) : i \in idx }
             /\ \A g \in DOMAIN prefectureBounds :
                   IsSmallestBox(prefectureBounds[g],
                                 { i \in idx : Key(featureCollection[i].ken) = g })
             /\ \A g \in DOMAIN districtBounds :
                   IsSmallestBox(districtBounds[g],
                                 { i \in idx : Key(featureCollection[i].kucode) = g })
             /\ (featureCollection = << >>
                    => prefectureBounds = EmptyTable /\ districtBounds = EmptyTable)
             /\ \A i \in idx :
                   (\A j \in idx \ {i} : featureCollection[j].kucode # featureCollection[i].kucode)
                       => districtBounds[Key(featureCollection[i].kucode)] = featureCollection[i].box

C18_Witness ==
    /\ pc = "indexed"
    /\ Len(featureCollection) = 2
    /\ featureCollection[1].ken = featureCollection[2].ken
    /\ featureCollection[1].kucode # featureCollection[2].kucode
    /\ featureCollection[1].box = Box(1, 1, 1, 1)
    /\ featureCollection[2].box = Box(0, 0, 0, 1)
    /\ prefectureBounds[Key(featureCollection[1].ken)] = Box(0, 0, 1, 1)
    /\ districtBounds[Key(featureCollection[1].kucode)] = Box(1, 1, 1, 1)

====
